---- MODULE Spec2Model ----
(***************************************************************************)
(* Model of the PokeFinder service: the /pokemon/save handler of           *)
(* app/main.py with the PokeAPI client of app/pokeapi_client.py, the       *)
(* request-scoped session of app/db.py and the startup migration.          *)
(*                                                                         *)
(* The handler is an asyncio coroutine: the code between two awaits runs   *)
(* atomically, so there is one action per awaited operation (the list      *)
(* fetch, each detail-fetch task, the gather, each db.execute, the commit).*)
(***************************************************************************)
EXTENDS Integers, Sequences, FiniteSets, Bags, TLC

(* ---------------------------------------------------------------------- *)
(* Bounds                                                                  *)
(* ---------------------------------------------------------------------- *)

\* longest "results" list the upstream serves in one page
MaxPage == 2

(* ---------------------------------------------------------------------- *)
(* Program constants                                                       *)
(* ---------------------------------------------------------------------- *)

LimitGe == 1
LimitLe == 100
OffsetGe == 0
StatusOk == 200
StatusUnprocessable == 422
StatusListFailed == 500
StatusInternalError == 500
StatusBadGateway == 502

(* ---------------------------------------------------------------------- *)
(* JSON / Python values                                                    *)
(* ---------------------------------------------------------------------- *)

\* Python None (JSON null), and a present value v
None == [none |-> TRUE]
Some(v) == [some |-> v]

\* dict.get(key, default): the value under key, else the default
Get(d, key, default) == IF key \in DOMAIN d THEN d[key] ELSE default

\* Python truthiness of an optional string: None and "" are falsy
Truthy(x) == x # None /\ x # Some("")

(* ---------------------------------------------------------------------- *)
(* The upstream (PokeAPI): what the environment may answer                 *)
(* ---------------------------------------------------------------------- *)

Urls == {"pokemon/1", "pokemon/2"}

\* one element of the "results" list of a page: with or without a "url" key
Entries == {[name |-> "unlisted"]} \cup {[name |-> u, url |-> u] : u \in Urls}

RECURSIVE SeqsUpTo(_, _)
SeqsUpTo(S, n) ==
    IF n = 0 THEN {<<>>}
    ELSE LET shorter == SeqsUpTo(S, n - 1)
         IN  shorter \cup {Append(s, e) : s \in {t \in shorter : Len(t) = n - 1}, e \in S}

Pages == SeqsUpTo(Entries, MaxPage)

TypeEntry(n, u) == [slot |-> Some(1), type |-> Some([name |-> n, url |-> u])]
Grass == TypeEntry(Some("grass"), Some("type/12"))
Poison == TypeEntry(Some("poison"), Some("type/4"))

Bulbasaur ==
    [id |-> Some(1), name |-> Some("bulbasaur"), base_experience |-> Some(64),
     height |-> Some(7), order |-> Some(1), weight |-> Some(69),
     location_area_encounters |-> Some("pokemon/1/encounters"),
     types |-> Some(<<Grass, Poison>>)]

\* a later revision of the same resource: renamed, optional fields null or
\* omitted, one type fewer
BulbasaurRevised ==
    [id |-> Some(1), name |-> Some("bulbasaur-gmax"), base_experience |-> None,
     order |-> None, types |-> Some(<<Grass>>)]

\* "name" missing
Nameless ==
    [id |-> Some(1), base_experience |-> Some(64), height |-> Some(7),
     types |-> Some(<<Poison>>)]

\* well-formed types next to entries without "type", without a url, and
\* with an empty name
Ivysaur ==
    [id |-> Some(2), name |-> Some("ivysaur"), base_experience |-> Some(142),
     height |-> Some(10), order |-> Some(2), weight |-> Some(130),
     location_area_encounters |-> Some("pokemon/2/encounters"),
     types |-> Some(<<Grass, [slot |-> Some(2)],
                      TypeEntry(Some("poison"), None),
                      TypeEntry(Some(""), Some("type/0"))>>)]

\* no "types" key and no optional field at all
IvysaurBare == [id |-> Some(2), name |-> Some("ivysaur")]

\* a types entry whose "type" is null
IvysaurNullRef ==
    [id |-> Some(2), name |-> Some("ivysaur"),
     types |-> Some(<<Poison, [slot |-> Some(2), type |-> None]>>)]

\* "types" is null
IvysaurNullTypes == [id |-> Some(2), name |-> Some("ivysaur"), types |-> None]

\* "id" missing
Anonymous == [name |-> Some("missingno"), types |-> Some(<<Grass>>)]

\* the JSON documents the detail endpoint may serve for a url
Documents(u) ==
    IF u = "pokemon/1" THEN {Bulbasaur, BulbasaurRevised, Nameless}
    ELSE {Ivysaur, IvysaurBare, IvysaurNullRef, IvysaurNullTypes, Anonymous}

\* how one HTTP GET may end: transport error (timeouts included), a 4xx/5xx
\* status, a 2xx whose body is not JSON, a 2xx with a JSON body
FailedStatuses == {"transport_error", "bad_status"}
HttpStatuses == FailedStatuses \cup {"bad_json", "ok"}

(* ---------------------------------------------------------------------- *)
(* State                                                                   *)
(* ---------------------------------------------------------------------- *)

VARIABLES
    tables,         \* tables that exist in the database
    started,        \* the startup hook has run
    pokemon,        \* committed 'pokemon' table: pokemon_id -> row
    pokemon_types,  \* committed 'pokemon_types' table: bag of rows
    pc,             \* the operation save_pokemon is awaiting ("idle": no request)
    limit,          \* query parameters of the request in progress
    offset,
    list_status,    \* how the list GET ended ("none": not yet)
    results,        \* list_data.get("results", [])
    fetch_status,   \* per detail task: how its GET ended ("pending": not yet)
    details_list,   \* per detail task: what fetch_pokemon_details returned
    i,              \* index in details_list of the record being written
    j,              \* index in its types of the entry being inserted
    saved_count,
    tx,             \* the session's uncommitted view of the two tables
    response,       \* the last HTTP response of /pokemon/save
    before,         \* the committed tables as they were when the run began
    prev            \* inputs and summary of the preceding successful run, kept
                    \* while the run in progress has seen the same upstream

\* a call of utils.parse_limit_offset, which no handler makes
VARIABLES
    limit_str,      \* the arguments of the call
    offset_str,
    default_limit,
    max_limit,
    parsed          \* what the call returned or that it raised (NotCalled: not yet)

parse_vars == <<limit_str, offset_str, default_limit, max_limit, parsed>>

\* two runs of save_pokemon at once, each with a session of its own
VARIABLE
    sessions        \* per run: its position, its batch and its transaction

aux_vars == <<parse_vars, sessions>>

vars == <<tables, started, pokemon, pokemon_types, pc, limit, offset, list_status,
          results, fetch_status, details_list, i, j, saved_count, tx, response, before,
          prev, aux_vars>>

store_vars == <<pokemon, pokemon_types>>
run_vars == <<limit, offset, list_status, results, fetch_status, details_list,
              i, j, saved_count, tx>>

TableNames == {"pokemon", "pokemon_types"}

NoResponse == [status |-> 0, cause |-> "none"]
NoPrev == [known |-> FALSE]
NotCalled == [called |-> FALSE]

LimitInputs == {LimitGe - 1, LimitGe, LimitLe, LimitLe + 1}
OffsetInputs == {OffsetGe - 1, OffsetGe}

\* the database is external: it may or may not hold the tables, and it holds
\* no rows; the application has not started
Init ==
    /\ tables \in SUBSET TableNames
    /\ started = FALSE
    /\ pokemon = <<>>
    /\ pokemon_types = EmptyBag
    /\ pc = "idle"
    /\ limit = 0
    /\ offset = 0
    /\ list_status = "none"
    /\ results = <<>>
    /\ fetch_status = <<>>
    /\ details_list = <<>>
    /\ i = 0
    /\ j = 0
    /\ saved_count = 0
    /\ tx = [pokemon |-> <<>>, pokemon_types |-> EmptyBag]
    /\ response = NoResponse
    /\ before = [pokemon |-> <<>>, pokemon_types |-> EmptyBag]
    /\ prev = NoPrev
    /\ limit_str = None
    /\ offset_str = None
    /\ default_limit = 0
    /\ max_limit = 0
    /\ parsed = NotCalled
    /\ sessions = <<>>

(* ---------------------------------------------------------------------- *)
(* Startup                                                                 *)
(* ---------------------------------------------------------------------- *)

\* CREATE TABLE IF NOT EXISTS pokemon
run_migrations(t) == t \cup {"pokemon"}

on_startup ==
    /\ ~started
    /\ started' = TRUE
    /\ tables' = run_migrations(tables)
    /\ UNCHANGED <<store_vars, pc, run_vars, response, before, prev>>
    /\ UNCHANGED aux_vars

(* ---------------------------------------------------------------------- *)
(* Remote catalog client (pokeapi_client.py)                               *)
(* ---------------------------------------------------------------------- *)

\* fetch_pokemon_list, had it answered a failure with an empty page
fetch_pokemon_listSwallowing(st, page) ==
    [raised |-> FALSE, value |-> [count |-> Len(page), results |-> page]]

\* fetch_pokemon_list: raise_for_status() and json() raise, nothing is caught
fetch_pokemon_list(st, page) ==
    IF st = "ok" THEN [raised |-> FALSE, value |-> [count |-> Len(page), results |-> page]]
    ELSE [raised |-> TRUE]

\* what a task that raised leaves in the place of its result
Raised == [exception |-> TRUE]

\* fetch_pokemon_details, had it let the HTTPError through
fetch_pokemon_detailsPropagating(st, doc) ==
    IF st = "ok" THEN doc ELSE Raised

\* fetch_pokemon_details: httpx.HTTPError (transport errors, status errors)
\* is turned into None; the JSON decoding error of json() is not an HTTPError
fetch_pokemon_details(st, doc) ==
    IF st = "ok" THEN doc
    ELSE IF st \in FailedStatuses THEN None
    ELSE Raised

(* ---------------------------------------------------------------------- *)
(* save_pokemon: helpers                                                   *)
(* ---------------------------------------------------------------------- *)

\* ValidQuery, had le=100 been left out
ValidQueryNoUpper(l, o) == l >= LimitGe /\ o >= OffsetGe

\* limit: Query(ge=1, le=100), offset: Query(ge=0)
ValidQuery(l, o) == l >= LimitGe /\ l <= LimitLe /\ o >= OffsetGe

HasUrl(item) == "url" \in DOMAIN item

\* the urls the detail tasks are created for: items with a "url" key, in order
Tasks(res) == SelectSeq(res, HasUrl)

\* Malformed, had the name been left unchecked
MalformedIdOnly(details) == Get(details, "id", None) = None

\* "if pokemon_id is None or name is None: continue"
Malformed(details) ==
    Get(details, "id", None) = None \/ Get(details, "name", None) = None

\* "if details is None: continue" and the malformed skip
Skipped(details) == details = None \/ Malformed(details)

\* the next index from k on whose details are written (Len + 1: none left)
RECURSIVE NextRecord(_, _)
NextRecord(dl, k) ==
    IF k > Len(dl) THEN k
    ELSE IF Skipped(dl[k]) THEN NextRecord(dl, k + 1)
    ELSE k

\* the values of pg_insert(Pokemon).values(...)
InsertValues(details) ==
    [name |-> Get(details, "name", None),
     base_experience |-> Get(details, "base_experience", None),
     height |-> Get(details, "height", None),
     order |-> Get(details, "order", None),
     weight |-> Get(details, "weight", None),
     location_area_encounters |-> Get(details, "location_area_encounters", None)]

\* OnConflictDoUpdate, had "weight" been left out of set_
OnConflictDoUpdateNoWeight(row, details) ==
    [row EXCEPT !.name = Get(details, "name", None),
                !.base_experience = Get(details, "base_experience", None),
                !.height = Get(details, "height", None),
                !.order = Get(details, "order", None),
                !.location_area_encounters = Get(details, "location_area_encounters", None)]

\* on_conflict_do_update(set_={...}) applied to the stored row
OnConflictDoUpdate(row, details) ==
    [row EXCEPT !.name = Get(details, "name", None),
                !.base_experience = Get(details, "base_experience", None),
                !.height = Get(details, "height", None),
                !.order = Get(details, "order", None),
                !.weight = Get(details, "weight", None),
                !.location_area_encounters = Get(details, "location_area_encounters", None)]

\* Upsert, had the table been reloaded with the record
UpsertReplacingTable(t, details) ==
    [k \in {Get(details, "id", None).some} |-> InsertValues(details)]

\* INSERT ... ON CONFLICT (pokemon_id) DO UPDATE on the table t
Upsert(t, details) ==
    LET pokemon_id == Get(details, "id", None).some
    IN  [k \in DOMAIN t \cup {pokemon_id} |->
            IF k # pokemon_id THEN t[k]
            ELSE IF k \in DOMAIN t THEN OnConflictDoUpdate(t[k], details)
            ELSE InsertValues(details)]

\* DeleteTypes, had the delete been left out
DeleteTypesNothing(b, pokemon_id) == b

\* DeleteTypes, had the where clause been left out
DeleteTypesAll(b, pokemon_id) == EmptyBag

\* DeleteTypes, had the where clause been inverted
DeleteTypesOthers(b, pokemon_id) ==
    LET kept == {r \in BagToSet(b) : r.pokemon_id = pokemon_id}
    IN  [r \in kept |-> b[r]]

\* delete(PokemonType).where(PokemonType.pokemon_id == pokemon_id)
DeleteTypes(b, pokemon_id) ==
    LET kept == {r \in BagToSet(b) : r.pokemon_id # pokemon_id}
    IN  [r \in kept |-> b[r]]

\* PokemonType.__table__.insert().values(...); models.py declares no
\* PokemonType, so no key is known for 'pokemon_types': the table is a bag of
\* the three inserted columns, and a constraint the database may enforce is
\* one of the failures of ExecuteOutcomes
InsertType(b, pokemon_id, t) ==
    b (+) SetToBag({[pokemon_id |-> pokemon_id,
                     type_name |-> Get(t, "name", None).some,
                     type_url |-> Get(t, "url", None).some]})

\* t = entry.get("type", {})
TypeOf(entry) == Get(entry, "type", Some(<<>>))

\* "if type_name and type_url"
Insertable(t) == Truthy(Get(t, "name", None)) /\ Truthy(Get(t, "url", None))

\* the for-loop over types from entry k on, up to its next await: the index
\* of the next entry to insert, the end of the list, or the AttributeError
\* of t.get on a None
RECURSIVE ScanTypes(_, _)
ScanTypes(types, k) ==
    IF k > Len(types) THEN [kind |-> "done"]
    ELSE IF TypeOf(types[k]) = None THEN [kind |-> "raise"]
    ELSE IF Insertable(TypeOf(types[k]).some) THEN [kind |-> "insert", at |-> k]
    ELSE ScanTypes(types, k + 1)

\* types = details.get("types", [])
TypesOf(details) == Get(details, "types", Some(<<>>))

\* a statement on a table the database lacks fails; any statement may fail
ExecuteOutcomes(table) ==
    IF table \in tables THEN {"ok", "db_error"} ELSE {"db_error"}

Summary(count) ==
    [status |-> StatusOk, cause |-> "ok",
     message |-> "Successfully saved Pokemon to database",
     saved_count |-> count, offset |-> offset, limit |-> limit]

Snapshot == [pokemon |-> pokemon, pokemon_types |-> pokemon_types]

\* this run's inputs and summary, as the next run compares them
Remember(res, fs, dl, count, same) ==
    [known |-> TRUE, limit |-> limit, offset |-> offset, results |-> res,
     fetch_status |-> fs, details_list |-> dl, saved_count |-> count,
     repeat |-> same]

\* Raise, had the session committed on close what was executed so far
RaiseKeepingWrites(cause) ==
    /\ response' = [status |-> StatusInternalError, cause |-> cause]
    /\ pc' = "idle"
    /\ tx' = tx
    /\ prev' = NoPrev
    /\ pokemon' = tx.pokemon
    /\ pokemon_types' = tx.pokemon_types
    /\ UNCHANGED <<i, j, saved_count>>

\* an exception leaves the handler: get_db closes the session without a
\* commit, which rolls the transaction back, and the client gets a 500
Raise(cause) ==
    /\ response' = [status |-> StatusInternalError, cause |-> cause]
    /\ pc' = "idle"
    /\ tx' = Snapshot
    /\ prev' = NoPrev
    /\ UNCHANGED <<store_vars, i, j, saved_count>>

\* the for-loop over details_list from index k on, up to its next await
Continue(k, count, txn) ==
    LET n == NextRecord(details_list, k)
    IN  /\ i' = n
        /\ j' = 0
        /\ saved_count' = count
        /\ tx' = txn
        /\ pc' = IF n > Len(details_list) THEN "commit" ELSE "upsert"
        /\ UNCHANGED <<store_vars, response, prev>>

\* the rest of one record after its delete or one of its inserts
AfterTypes(scan, txn) ==
    IF scan.kind = "raise" THEN Raise("crash")
    ELSE IF scan.kind = "insert"
    THEN /\ pc' = "insert"
         /\ j' = scan.at
         /\ tx' = txn
         /\ UNCHANGED <<store_vars, i, saved_count, response, prev>>
    ELSE Continue(i + 1, saved_count + 1, txn)

(* ---------------------------------------------------------------------- *)
(* save_pokemon: one action per awaited operation                          *)
(* ---------------------------------------------------------------------- *)

\* a request whose query parameters FastAPI rejects: the handler is not run
RejectRequest ==
    /\ started
    /\ pc = "idle"
    /\ \E l \in LimitInputs, o \in OffsetInputs :
          /\ ~ValidQuery(l, o)
          /\ response' = [status |-> StatusUnprocessable, cause |-> "validation"]
    /\ UNCHANGED <<tables, started, store_vars, pc, run_vars, before, prev>>
    /\ UNCHANGED aux_vars

\* a valid request: get_db opens the session, the handler issues the list GET
BeginRequest ==
    /\ started
    /\ pc = "idle"
    /\ \E l \in LimitInputs, o \in OffsetInputs :
          /\ ValidQuery(l, o)
          /\ limit' = l
          /\ offset' = o
          /\ prev' = IF prev.known /\ prev.limit = l /\ prev.offset = o
                     THEN prev ELSE NoPrev
    /\ pc' = "list"
    /\ list_status' = "none"
    /\ results' = <<>>
    /\ fetch_status' = <<>>
    /\ details_list' = <<>>
    /\ i' = 0
    /\ j' = 0
    /\ saved_count' = 0
    /\ tx' = Snapshot
    /\ before' = Snapshot
    /\ response' = NoResponse
    /\ UNCHANGED <<tables, started, store_vars>>
    /\ UNCHANGED aux_vars

\* "except Exception: raise HTTPException(status_code=500, ...)"
ListFailed ==
    /\ response' = [status |-> StatusListFailed, cause |-> "upstream"]
    /\ pc' = "idle"
    /\ prev' = NoPrev
    /\ UNCHANGED <<fetch_status, details_list>>

\* EmptyPage, had an empty page been answered as an error
EmptyPageAsError ==
    /\ response' = [status |-> StatusListFailed, cause |-> "upstream"]
    /\ pc' = "idle"
    /\ prev' = NoPrev
    /\ UNCHANGED <<fetch_status, details_list>>

\* "if not results: return {..., "saved_count": 0, ...}"
EmptyPage ==
    /\ response' = Summary(0)
    /\ pc' = "idle"
    /\ prev' = Remember(<<>>, <<>>, <<>>, 0, prev.known /\ prev.results = <<>>)
    /\ UNCHANGED <<fetch_status, details_list>>

\* Step 1: the list GET ends; a failure becomes HTTPException(500), an empty
\* page returns at once, otherwise the detail tasks are created (Step 2)
ListFetched ==
    /\ pc = "list"
    /\ \E st \in HttpStatuses, page \in Pages :
          LET list_data == fetch_pokemon_list(st, page)
          IN  /\ st # "ok" => page = <<>>
              /\ list_status' = st
              /\ IF list_data.raised
                 THEN /\ ListFailed
                      /\ UNCHANGED results
                 ELSE /\ results' = list_data.value.results
                      /\ IF results' = <<>>
                         THEN EmptyPage
                         ELSE /\ fetch_status' = [k \in 1..Len(Tasks(results')) |-> "pending"]
                              /\ details_list' = [k \in 1..Len(Tasks(results')) |-> None]
                              /\ pc' = "gather"
                              /\ prev' = IF prev.known /\ prev.results = results'
                                         THEN prev ELSE NoPrev
                              /\ UNCHANGED response
    /\ UNCHANGED <<tables, started, store_vars, limit, offset, i, j, saved_count, tx,
                   before>>
    /\ UNCHANGED aux_vars

\* DetailFetched, had the results been collected in completion order
DetailFetchedAppending ==
    /\ pc = "gather"
    /\ \E k \in DOMAIN fetch_status :
          /\ fetch_status[k] = "pending"
          /\ \E st \in HttpStatuses, doc \in Documents(Tasks(results)[k].url) :
                LET value == fetch_pokemon_details(st, doc)
                    at == 1 + Cardinality({m \in DOMAIN fetch_status :
                                             fetch_status[m] # "pending"})
                IN  /\ st # "ok" => doc = CHOOSE d \in Documents(Tasks(results)[k].url) : TRUE
                    /\ fetch_status' = [fetch_status EXCEPT ![k] = st]
                    /\ details_list' = [details_list EXCEPT ![at] = value]
                    /\ prev' = NoPrev
    /\ UNCHANGED <<tables, started, store_vars, pc, limit, offset, list_status,
                   results, i, j, saved_count, tx, response, before>>
    /\ UNCHANGED aux_vars

\* one detail task ends: its GET ends and fetch_pokemon_details returns the
\* document or None, or raises
DetailFetched ==
    /\ pc = "gather"
    /\ \E k \in DOMAIN fetch_status :
          /\ fetch_status[k] = "pending"
          /\ \E st \in HttpStatuses, doc \in Documents(Tasks(results)[k].url) :
                LET value == fetch_pokemon_details(st, doc)
                IN  /\ st # "ok" => doc = CHOOSE d \in Documents(Tasks(results)[k].url) : TRUE
                    /\ fetch_status' = [fetch_status EXCEPT ![k] = st]
                    /\ details_list' = [details_list EXCEPT ![k] = value]
                    /\ prev' = IF /\ prev.known
                                  /\ prev.fetch_status[k] = st
                                  /\ prev.details_list[k] = value
                               THEN prev ELSE NoPrev
    /\ UNCHANGED <<tables, started, store_vars, pc, limit, offset, list_status,
                   results, i, j, saved_count, tx, response, before>>
    /\ UNCHANGED aux_vars

\* a join that waits until every task has produced a payload
GatheredOnSuccess ==
    /\ pc = "gather"
    /\ IF \E k \in DOMAIN details_list : details_list[k] = Raised
       THEN Raise("crash")
       ELSE /\ \A k \in DOMAIN fetch_status : fetch_status[k] = "ok"
            /\ Continue(1, 0, tx)
    /\ UNCHANGED <<tables, started, limit, offset, list_status, results,
                   fetch_status, details_list, before>>
    /\ UNCHANGED aux_vars

\* Gathered, had the handler gone on when the first task returned
GatheredEarly ==
    /\ pc = "gather"
    /\ IF \E k \in DOMAIN details_list : details_list[k] = Raised
       THEN Raise("crash")
       ELSE /\ \E k \in DOMAIN fetch_status : fetch_status[k] # "pending"
            /\ Continue(1, 0, tx)
    /\ UNCHANGED <<tables, started, limit, offset, list_status, results,
                   fetch_status, details_list, before>>
    /\ UNCHANGED aux_vars

\* asyncio.gather returns when every task has returned, and raises as soon
\* as one task has raised; then Step 3 runs up to its first db.execute
Gathered ==
    /\ pc = "gather"
    /\ IF \E k \in DOMAIN details_list : details_list[k] = Raised
       THEN Raise("crash")
       ELSE /\ \A k \in DOMAIN fetch_status : fetch_status[k] # "pending"
            /\ Continue(1, 0, tx)
    /\ UNCHANGED <<tables, started, limit, offset, list_status, results,
                   fetch_status, details_list, before>>
    /\ UNCHANGED aux_vars

\* await db.execute(stmt): the upsert of details_list[i]
Upserted ==
    /\ pc = "upsert"
    /\ \E out \in ExecuteOutcomes("pokemon") :
          IF out = "db_error" THEN Raise("persistence")
          ELSE /\ tx' = [tx EXCEPT !.pokemon = Upsert(tx.pokemon, details_list[i])]
               /\ pc' = "delete"
               /\ UNCHANGED <<store_vars, i, j, saved_count, response, prev>>
    /\ UNCHANGED <<tables, started, limit, offset, list_status, results,
                   fetch_status, details_list, before>>
    /\ UNCHANGED aux_vars

\* await db.execute(delete(...)), then the types loop up to its first insert
Deleted ==
    /\ pc = "delete"
    /\ \E out \in ExecuteOutcomes("pokemon_types") :
          LET details == details_list[i]
              pokemon_id == Get(details, "id", None).some
              txn == [tx EXCEPT !.pokemon_types = DeleteTypes(tx.pokemon_types, pokemon_id)]
          IN  IF out = "db_error" THEN Raise("persistence")
              ELSE IF TypesOf(details) = None THEN Raise("crash")
              ELSE AfterTypes(ScanTypes(TypesOf(details).some, 1), txn)
    /\ UNCHANGED <<tables, started, limit, offset, list_status, results,
                   fetch_status, details_list, before>>
    /\ UNCHANGED aux_vars

\* await db.execute(insert(...)) of types[j], then the rest of the types loop
Inserted ==
    /\ pc = "insert"
    /\ \E out \in ExecuteOutcomes("pokemon_types") :
          LET details == details_list[i]
              pokemon_id == Get(details, "id", None).some
              types == TypesOf(details).some
              txn == [tx EXCEPT !.pokemon_types =
                         InsertType(tx.pokemon_types, pokemon_id, TypeOf(types[j]).some)]
          IN  IF out = "db_error" THEN Raise("persistence")
              ELSE AfterTypes(ScanTypes(types, j + 1), txn)
    /\ UNCHANGED <<tables, started, limit, offset, list_status, results,
                   fetch_status, details_list, before>>
    /\ UNCHANGED aux_vars

\* a commit reaches the database only if a statement was executed
CommitOutcomes == IF saved_count > 0 THEN {"ok", "db_error"} ELSE {"ok"}

\* Step 4: await db.commit(), then the summary
Committed ==
    /\ pc = "commit"
    /\ \E out \in CommitOutcomes :
          IF out = "db_error" THEN Raise("persistence")
          ELSE /\ pokemon' = tx.pokemon
               /\ pokemon_types' = tx.pokemon_types
               /\ response' = Summary(saved_count)
               /\ pc' = "idle"
               /\ prev' = Remember(results, fetch_status, details_list, saved_count, prev.known)
               /\ UNCHANGED <<i, j, saved_count, tx>>
    /\ UNCHANGED <<tables, started, limit, offset, list_status, results,
                   fetch_status, details_list, before>>
    /\ UNCHANGED aux_vars

Next ==
    \/ on_startup
    \/ RejectRequest
    \/ BeginRequest
    \/ ListFetched
    \/ DetailFetched
    \/ Gathered
    \/ Upserted
    \/ Deleted
    \/ Inserted
    \/ Committed

Spec == Init /\ [][Next]_vars

TypeOK ==
    /\ pc \in {"idle", "list", "gather", "upsert", "delete", "insert", "commit"}
    /\ saved_count \in 0..MaxPage
    /\ Len(results) <= MaxPage

(* ---------------------------------------------------------------------- *)
(* Vocabulary of the properties                                            *)
(* ---------------------------------------------------------------------- *)

IdOf(details) == details.id.some

\* a detail result that is a payload with a non-null id and name
Valid(details) ==
    /\ "id" \in DOMAIN details
    /\ "name" \in DOMAIN details
    /\ details.id # None
    /\ details.name # None

\* the positions of details_list whose record the run is to write
Written(dl) == {k \in DOMAIN dl : Valid(dl[k])}

\* position k holds the last written payload of its id
LastFor(dl, k) ==
    /\ k \in Written(dl)
    /\ \A m \in Written(dl) : m > k => IdOf(dl[m]) # IdOf(dl[k])

\* the ids the run writes
WrittenIds(dl) == {IdOf(dl[k]) : k \in Written(dl)}

\* the categories a payload reports: its types entries with a name and a url
Categories(details) ==
    LET types == TypesOf(details).some
        good == {n \in DOMAIN types :
                    /\ TypeOf(types[n]) # None
                    /\ Truthy(Get(TypeOf(types[n]).some, "name", None))
                    /\ Truthy(Get(TypeOf(types[n]).some, "url", None))}
    IN  {[pokemon_id |-> IdOf(details),
          type_name |-> TypeOf(types[n]).some.name.some,
          type_url |-> TypeOf(types[n]).some.url.some] : n \in good}

\* the membership rows a table holds for an id
StoredTypes(b, pokemon_id) == {r \in BagToSet(b) : r.pokemon_id = pokemon_id}

\* a payload with id and name whose types is a list of entries with a
\* non-null "type", if given
WellFormed(details) ==
    /\ Valid(details)
    /\ TypesOf(details) # None
    /\ \A n \in DOMAIN TypesOf(details).some : TypeOf(TypesOf(details).some[n]) # None

\* the run has ended with the summary / with some response
RunOk == pc = "idle" /\ response.cause = "ok"
RunEnded == pc = "idle" /\ response.cause \notin {"none", "validation"}

(* ---------------------------------------------------------------------- *)
(* Properties                                                              *)
(* ---------------------------------------------------------------------- *)

\* C1 (atomicity): while a run is in progress and after a run that ended in a
\* persistence failure the committed tables are what they were when the run
\* began and the failure is answered with a server error; after a run that
\* committed, every written record is stored, with the categories of the
\* last payload of its id.
C1_Atomicity ==
    /\ (pc # "idle" \/ response.cause = "persistence") => Snapshot = before
    /\ response.cause = "persistence" =>
          pc = "idle" /\ response.status = StatusInternalError
    /\ RunOk =>
          \A k \in Written(details_list) :
             /\ IdOf(details_list[k]) \in DOMAIN pokemon
             /\ LastFor(details_list, k) =>
                   Categories(details_list[k]) \subseteq
                      StoredTypes(pokemon_types, IdOf(details_list[k]))

\* a run failed in the store after it had written a whole record, and a
\* record of its batch is not stored
C1_Witness ==
    /\ pc = "idle"
    /\ response.cause = "persistence"
    /\ saved_count >= 1
    /\ \E k \in Written(details_list) : IdOf(details_list[k]) \notin DOMAIN pokemon

\* C2 (replace-not-merge): after a run that committed, the membership rows
\* stored for each written id are exactly the categories of the last payload
\* the run wrote for that id, whatever was stored for it before.
C2_ReplaceNotMerge ==
    RunOk =>
       \A k \in DOMAIN details_list :
          LastFor(details_list, k) =>
             StoredTypes(pokemon_types, IdOf(details_list[k])) =
                Categories(details_list[k])

\* a run committed for an id whose payload reports fewer categories than
\* were stored for it before, and only the reported ones remain
C2_Witness ==
    /\ RunOk
    /\ \E k \in DOMAIN details_list :
          /\ LastFor(details_list, k)
          /\ Categories(details_list[k]) # {}
          /\ Categories(details_list[k]) # StoredTypes(before.pokemon_types, IdOf(details_list[k]))
          /\ Categories(details_list[k]) \subseteq
                StoredTypes(before.pokemon_types, IdOf(details_list[k]))
          /\ StoredTypes(pokemon_types, IdOf(details_list[k])) = Categories(details_list[k])

\* the step ends a run with the summary, and the run saw what the preceding
\* successful run saw: same query, page, fetch outcomes and payloads
RepeatedRunEnds ==
    /\ response.cause = "none"
    /\ response'.cause = "ok"
    /\ prev.known
    /\ prev.results = results'
    /\ prev.fetch_status = fetch_status'
    /\ prev.details_list = details_list'

\* C3 (idempotence): a run that repeats the preceding successful run against
\* an unchanged upstream leaves both tables as that run left them and reports
\* the same saved_count.
C3_Idempotence ==
    [][RepeatedRunEnds =>
          /\ pokemon' = pokemon
          /\ pokemon_types' = pokemon_types
          /\ response'.saved_count = prev.saved_count]_vars

\* a run that saved records and memberships has been repeated
C3_Witness ==
    /\ RunOk
    /\ prev.known
    /\ prev.repeat
    /\ prev.saved_count >= 1
    /\ pokemon_types # EmptyBag

\* the detail tasks whose GET failed
FailedFetches == {k \in DOMAIN fetch_status : fetch_status[k] \in FailedStatuses}

\* C4 (partial failure isolation): a detail fetch whose GET fails yields None;
\* a run over a page whose other payloads are well formed ends, unless the
\* store fails, with the summary and saved_count = n - k, n the entries with
\* a url and k the failed fetches.
C4_PartialFailureIsolation ==
    /\ \A k \in FailedFetches : details_list[k] = None
    /\ ( /\ RunEnded
         /\ list_status = "ok"
         /\ results # <<>>
         /\ \A k \in DOMAIN fetch_status :
               \/ k \in FailedFetches
               \/ fetch_status[k] = "ok" /\ WellFormed(details_list[k]) )
       => \/ response.cause = "persistence"
          \/ /\ response.cause = "ok"
             /\ response.saved_count =
                   Len(Tasks(results)) - Cardinality(FailedFetches)

\* a run with a failed detail fetch has saved the other record
C4_Witness ==
    /\ RunOk
    /\ Cardinality(FailedFetches) >= 1
    /\ Len(Tasks(results)) >= 2
    /\ response.saved_count = Len(Tasks(results)) - Cardinality(FailedFetches)
    /\ response.saved_count >= 1

\* C5 (list failure is fatal): when the list GET has failed the run is over
\* with the upstream error, no detail task was created, and both tables are
\* what they were when the run began.
C5_ListFailureFatal ==
    list_status \notin {"none", "ok"} =>
       /\ pc = "idle"
       /\ response.cause # "validation" => response.cause = "upstream"
       /\ fetch_status = <<>>
       /\ details_list = <<>>
       /\ Snapshot = before

\* the list GET failed over a store that holds rows
C5_Witness ==
    /\ list_status \in FailedStatuses
    /\ response.cause = "upstream"
    /\ pokemon # <<>>
    /\ pokemon_types # EmptyBag

\* C6 (error mapping), as claimed: a failed list fetch is answered with 502,
\* a status other than the one of a persistence failure.
C6_UpstreamIsBadGateway ==
    response.cause = "upstream" =>
       /\ response.status = StatusBadGateway
       /\ response.status # StatusInternalError

\* C7 (outcomes), as claimed: a run ends with the upstream error, with a
\* persistence failure, or with a summary that echoes limit and offset and
\* whose saved_count is at most the number of entries of the page.
C7_OutcomeKinds ==
    RunEnded =>
       \/ response.cause \in {"upstream", "persistence"}
       \/ /\ response.cause = "ok"
          /\ response.saved_count <= Len(results)
          /\ response.limit = limit
          /\ response.offset = offset

\* the ids either table, now or when the run began, holds rows for
KnownIds ==
    DOMAIN pokemon \cup DOMAIN before.pokemon
       \cup {r.pokemon_id : r \in BagToSet(pokemon_types)}
       \cup {r.pokemon_id : r \in BagToSet(before.pokemon_types)}

\* what the two tables of a snapshot hold for an id
RowsOf(snap, pokemon_id) ==
    [row |-> IF pokemon_id \in DOMAIN snap.pokemon
             THEN Some(snap.pokemon[pokemon_id]) ELSE None,
     types |-> [r \in StoredTypes(snap.pokemon_types, pokemon_id) |->
                   snap.pokemon_types[r]]]

\* the payloads that lack an id or a name
MalformedPayloads ==
    {k \in DOMAIN details_list :
        fetch_status[k] = "ok" /\ ~Valid(details_list[k])}

\* C8 (malformed skip): after a run that committed, saved_count counts the
\* payloads with id and name only, each of them is stored, and for every id
\* with no such payload both tables hold what they held when the run began;
\* a run whose payloads are well formed or lack id or name ends with the
\* summary unless the store fails.
C8_MalformedSkip ==
    /\ RunOk =>
          /\ response.saved_count = Cardinality(Written(details_list))
          /\ \A k \in Written(details_list) : IdOf(details_list[k]) \in DOMAIN pokemon
          /\ \A n \in KnownIds \ WrittenIds(details_list) :
                RowsOf(Snapshot, n) = RowsOf(before, n)
    /\ ( /\ RunEnded
         /\ list_status = "ok"
         /\ results # <<>>
         /\ \A k \in DOMAIN fetch_status :
               /\ fetch_status[k] = "ok"
               /\ k \in MalformedPayloads \/ WellFormed(details_list[k]) )
       => response.cause \in {"ok", "persistence"}

\* a run committed another record of a page that held a payload without a
\* name for an id stored before
C8_Witness ==
    /\ RunOk
    /\ response.saved_count >= 1
    /\ \E k \in MalformedPayloads :
          /\ "id" \in DOMAIN details_list[k]
          /\ details_list[k].id # None
          /\ IdOf(details_list[k]) \in DOMAIN before.pokemon
          /\ IdOf(details_list[k]) \notin WrittenIds(details_list)
          /\ StoredTypes(pokemon_types, IdOf(details_list[k])) # {}

\* C9 (empty page): a run whose page has no entries ends with the summary,
\* saved_count = 0, no detail task created and both tables as they were.
C9_EmptyPage ==
    (pc = "idle" /\ list_status = "ok" /\ results = <<>> /\ response.cause # "validation")
       => /\ response.status = StatusOk
          /\ response.cause = "ok"
          /\ response.saved_count = 0
          /\ response.limit = limit
          /\ response.offset = offset
          /\ fetch_status = <<>>
          /\ details_list = <<>>
          /\ Snapshot = before

\* an empty page was served over a store that holds rows
C9_Witness ==
    /\ RunOk
    /\ list_status = "ok"
    /\ results = <<>>
    /\ pokemon # <<>>
    /\ pokemon_types # EmptyBag

\* the tracked columns of the 'pokemon' table
Columns ==
    {"name", "base_experience", "height", "order", "weight", "location_area_encounters"}

\* C10 (remote wins): after a run that committed, the row of each written id
\* exists and each tracked column holds the value of the last payload written
\* for that id, null where the payload is null or lacks the field.
C10_RemoteWins ==
    RunOk =>
       \A k \in DOMAIN details_list :
          LastFor(details_list, k) =>
             /\ IdOf(details_list[k]) \in DOMAIN pokemon
             /\ \A c \in Columns :
                   pokemon[IdOf(details_list[k])][c] = Get(details_list[k], c, None)

\* a run committed a payload that nulls a column stored non-null before, and
\* a payload for an id that was not stored before
C10_Witness ==
    /\ RunOk
    /\ \E k \in DOMAIN details_list :
          /\ LastFor(details_list, k)
          /\ IdOf(details_list[k]) \in DOMAIN before.pokemon
          /\ \E c \in Columns :
                /\ before.pokemon[IdOf(details_list[k])][c] # None
                /\ pokemon[IdOf(details_list[k])][c] = None
    /\ \E k \in DOMAIN details_list :
          /\ LastFor(details_list, k)
          /\ IdOf(details_list[k]) \notin DOMAIN before.pokemon

\* C11 (records are never deleted): no step removes an id from the
\* 'pokemon' table; the table changes only in the step that ends a run with
\* the summary, and the ids that step adds are ids the run wrote.
C11_NeverDeleted ==
    [][/\ DOMAIN pokemon \subseteq DOMAIN pokemon'
       /\ (DOMAIN pokemon' \ DOMAIN pokemon) \subseteq WrittenIds(details_list)
       /\ pokemon' # pokemon => response'.cause = "ok"]_vars

\* a run committed other records while an id stored before had no payload in
\* its batch, and the id is still stored
C11_Witness ==
    /\ RunOk
    /\ response.saved_count >= 1
    /\ \E n \in DOMAIN before.pokemon :
          /\ n \notin WrittenIds(details_list)
          /\ n \in DOMAIN pokemon

\* C12 (validation precedes all I/O): the step that answers a request with
\* the validation error answers 422 and leaves the tables, the session and
\* every variable of the handler unchanged; a run in progress or ended has
\* 1 <= limit <= 100 and offset >= 0.
C12_ValidationFirst ==
    [][/\ (response'.cause = "validation" /\ response' # response) =>
             /\ response'.status = StatusUnprocessable
             /\ pc = "idle" /\ pc' = "idle"
             /\ UNCHANGED <<store_vars, run_vars, before>>
       /\ (pc' # "idle" \/ response'.cause \in {"ok", "upstream", "persistence", "crash"}) =>
             limit' >= 1 /\ limit' <= 100 /\ offset' >= 0]_vars

\* a request was rejected over a store that holds rows
C12_Witness ==
    /\ response.cause = "validation"
    /\ response.status = StatusUnprocessable
    /\ pc = "idle"
    /\ pokemon # <<>>

\* the operations of the handler that use the session
WritePhases == {"upsert", "delete", "insert", "commit"}

\* C13 (join-all before writing): the handler reaches a store operation only
\* when no detail task is pending; a detail task that ends changes neither
\* the tables nor the session nor saved_count; a task whose GET failed leaves
\* the handler waiting and the other tasks as they were.
C13_JoinAllBeforeWriting ==
    [][/\ pc' \in WritePhases => \A k \in DOMAIN fetch_status' : fetch_status'[k] # "pending"
       /\ fetch_status' # fetch_status /\ pc = "gather" =>
             /\ UNCHANGED <<store_vars, tx, saved_count, pc, response>>
             /\ \A k \in DOMAIN fetch_status :
                   fetch_status[k] # "pending" =>
                      /\ fetch_status'[k] = fetch_status[k]
                      /\ details_list'[k] = details_list[k]
       /\ (tx' # tx \/ pokemon' # pokemon \/ pokemon_types' # pokemon_types) =>
             pc \in WritePhases \cup {"idle"}]_vars

\* the handler is writing after one detail fetch failed and another returned
\* a payload
C13_Witness ==
    /\ pc \in {"delete", "insert"}
    /\ FailedFetches # {}
    /\ \E k \in DOMAIN fetch_status : fetch_status[k] = "ok"
    /\ tx.pokemon # pokemon

\* the rows a payload's categories make, each as often as it is listed
CategoryBag(details) ==
    LET types == TypesOf(details).some
        good == {n \in DOMAIN types :
                    /\ TypeOf(types[n]) # None
                    /\ Truthy(Get(TypeOf(types[n]).some, "name", None))
                    /\ Truthy(Get(TypeOf(types[n]).some, "url", None))}
        row(n) == [pokemon_id |-> IdOf(details),
                   type_name |-> TypeOf(types[n]).some.name.some,
                   type_url |-> TypeOf(types[n]).some.url.some]
    IN  [r \in {row(n) : n \in good} |-> Cardinality({n \in good : row(n) = r})]

\* what a payload puts in the two tables for its id
RowsFrom(details) ==
    [row |-> Some([c \in Columns |-> Get(details, c, None)]),
     types |-> CategoryBag(details)]

\* what both tables hold for an id after a run over the results dl that
\* began with the tables snap: a function of the page positions only
Reconciled(snap, dl, n) ==
    IF n \in WrittenIds(dl)
    THEN RowsFrom(dl[CHOOSE k \in DOMAIN dl : LastFor(dl, k) /\ IdOf(dl[k]) = n])
    ELSE RowsOf(snap, n)

\* C14 (completion order does not matter): whatever the order in which the
\* detail tasks end, position k of details_list holds the outcome of the
\* task of the k-th url, and after a run that committed saved_count and the
\* content of both tables are the function Reconciled of the tables before
\* the run and of details_list.
C14_OrderIndependent ==
    /\ \A k \in DOMAIN fetch_status :
          /\ fetch_status[k] = "ok" =>
                details_list[k] \in Documents(Tasks(results)[k].url)
          /\ fetch_status[k] \in FailedStatuses \cup {"pending"} =>
                details_list[k] = None
    /\ RunOk =>
          /\ response.saved_count = Cardinality(Written(details_list))
          /\ \A n \in KnownIds \cup WrittenIds(details_list) :
                RowsOf(Snapshot, n) = Reconciled(before, details_list, n)

\* a later task of the page has returned its payload while an earlier one is
\* still pending
C14_Witness ==
    /\ pc = "gather"
    /\ \E k, m \in DOMAIN fetch_status :
          /\ k < m
          /\ fetch_status[k] = "pending"
          /\ fetch_status[m] = "ok"
          /\ Valid(details_list[m])
          /\ Tasks(results)[k].url # Tasks(results)[m].url

\* C15 (malformed category references), as claimed: a run whose payloads
\* all have id, name and a list of types, whatever the entries of the list,
\* does not fail unless the store fails, and when it commits every payload
\* is counted and stored with exactly its entries that have a name and a url.
C15_MalformedEntriesDropped ==
    ( /\ RunEnded
      /\ list_status = "ok"
      /\ results # <<>>
      /\ \A k \in DOMAIN fetch_status :
            \/ k \in FailedFetches
            \/ /\ fetch_status[k] = "ok"
               /\ Valid(details_list[k])
               /\ TypesOf(details_list[k]) # None )
    => /\ response.cause \in {"ok", "persistence"}
       /\ response.cause = "ok" =>
             /\ response.saved_count = Cardinality(Written(details_list))
             /\ \A k \in DOMAIN details_list :
                   LastFor(details_list, k) =>
                      RowsOf(Snapshot, IdOf(details_list[k])) = RowsFrom(details_list[k])

\* C16 (schema bootstrap), as claimed: once the startup hook has run, both
\* the 'pokemon' table and the 'pokemon_types' table exist.
C16_BootstrapBothTables ==
    started => {"pokemon", "pokemon_types"} \subseteq tables

\* the ids of the payloads a url may serve
IdsAt(u) == {d.id.some : d \in {e \in Documents(u) : "id" \in DOMAIN e /\ e.id # None}}

\* the ids whose item of the page was skipped: its fetch failed, or its
\* payload lacks the name
SkippedIds ==
    UNION {IdsAt(Tasks(results)[k].url) : k \in FailedFetches}
       \cup {details_list[k].id.some :
                k \in {m \in MalformedPayloads :
                          "id" \in DOMAIN details_list[m] /\ details_list[m].id # None}}

\* C19 (a skipped item leaves its stored state alone): after a run, for an
\* id stored before whose item was skipped and for which the run wrote no
\* other payload, both tables hold what they held when the run began.
C19_SkippedItemUntouched ==
    RunEnded =>
       \A n \in (SkippedIds \cap DOMAIN before.pokemon) \ WrittenIds(details_list) :
          RowsOf(Snapshot, n) = RowsOf(before, n)

\* a run committed another record while the fetch for an id stored before,
\* with memberships, failed
C19_Witness ==
    /\ RunOk
    /\ response.saved_count >= 1
    /\ \E k \in FailedFetches :
          \E n \in IdsAt(Tasks(results)[k].url) :
             /\ n \in DOMAIN before.pokemon
             /\ n \notin WrittenIds(details_list)
             /\ StoredTypes(before.pokemon_types, n) # {}
             /\ StoredTypes(pokemon_types, n) # {}

(* ---------------------------------------------------------------------- *)
(* Termination of a run                                                    *)
(* ---------------------------------------------------------------------- *)

\* a request against a catalogue that holds no record yet: the first runs of
\* a deployment, up to and including the first one that stores records
FirstRequest == pokemon = <<>> /\ BeginRequest

LiveNext ==
    \/ on_startup
    \/ RejectRequest
    \/ FirstRequest
    \/ ListFetched
    \/ DetailFetched
    \/ Gathered
    \/ Upserted
    \/ Deleted
    \/ Inserted
    \/ Committed

\* every awaited operation settles: the AsyncClient of each GET has
\* timeout=10.0, so the list GET and every detail GET return or raise; the
\* event loop resumes the handler once gather is done; every db.execute and
\* the commit return or raise.  Nothing cancels the handler's task.
Fairness ==
    /\ WF_vars(ListFetched)
    /\ WF_vars(DetailFetched)
    /\ WF_vars(Gathered)
    /\ WF_vars(Upserted)
    /\ WF_vars(Deleted)
    /\ WF_vars(Inserted)
    /\ WF_vars(Committed)

LiveSpec == Init /\ [][LiveNext]_vars /\ Fairness

\* C17 (a run drains to completion): a run that has started has no outcome
\* while it is in progress, and eventually it is over with one outcome, the
\* summary or a failure.
C17_RunCompletes ==
    /\ [](pc # "idle" => response.cause = "none")
    /\ (pc # "idle") ~>
          (pc = "idle" /\ response.cause \in {"ok", "upstream", "persistence", "crash"})

\* a first run has passed the join with a failed detail fetch and has ended
\* with the summary of the record it saved
C17_Witness ==
    /\ RunOk
    /\ before.pokemon = <<>>
    /\ Cardinality(FailedFetches) >= 1
    /\ pokemon # <<>>

(* ---------------------------------------------------------------------- *)
(* utils.parse_limit_offset                                                *)
(* ---------------------------------------------------------------------- *)

MaxStr == 2

\* the characters of the argument strings: a sign of each kind, two digits,
\* whitespace, and a character no integer literal contains
Alphabet == {"-", "+", "0", "1", " ", "x"}
Digits == {"0", "1"}
DigitValue(c) == IF c = "0" THEN 0 ELSE 1

Strings == SeqsUpTo(Alphabet, MaxStr)
DefaultLimits == {0, 5}
MaxLimits == {1, 10}

RECURSIVE lstrip(_)
lstrip(s) == IF s # <<>> /\ Head(s) = " " THEN lstrip(Tail(s)) ELSE s

RECURSIVE rstrip(_)
rstrip(s) ==
    IF s # <<>> /\ s[Len(s)] = " " THEN rstrip(SubSeq(s, 1, Len(s) - 1)) ELSE s

strip(s) == rstrip(lstrip(s))

\* the value of a run of decimal digits, left to right
RECURSIVE digits_value(_, _)
digits_value(s, acc) ==
    IF s = <<>> THEN acc ELSE digits_value(Tail(s), 10 * acc + DigitValue(Head(s)))

ValueError(message) == [raised |-> TRUE, message |-> message]
Returned(v) == [raised |-> FALSE, value |-> v]

\* int(str): surrounding whitespace is dropped, then an optional sign, then
\* one or more digits; anything else raises ValueError
int(s) ==
    LET t == strip(s)
        signed == t # <<>> /\ Head(t) \in {"-", "+"}
        body == IF signed THEN Tail(t) ELSE t
    IN  IF body = <<>> \/ \E k \in DOMAIN body : body[k] \notin Digits
        THEN ValueError("invalid literal for int()")
        ELSE Returned(IF signed /\ Head(t) = "-"
                      THEN 0 - digits_value(body, 0)
                      ELSE digits_value(body, 0))

\* parse_limit_offset, had it admitted a limit of 0
parse_limit_offsetFromZero(ls, os, dl, ml) ==
    LET l == IF ls = None THEN Returned(dl) ELSE int(ls.some)
        o == IF l.raised THEN l
             ELSE IF os = None THEN Returned(0) ELSE int(os.some)
    IN  IF l.raised \/ o.raised
        THEN ValueError("limit and offset must be integers")
        ELSE IF ~(0 <= l.value /\ l.value <= ml)
        THEN ValueError("limit out of allowed range")
        ELSE IF o.value < 0
        THEN ValueError("offset must be non-negative")
        ELSE Returned(<<l.value, o.value>>)

\* parse_limit_offset(limit_str, offset_str, default_limit=, max_limit=):
\* the try block parses limit, then offset, a ValueError of either int() is
\* raised anew; then the range checks
parse_limit_offset(ls, os, dl, ml) ==
    LET l == IF ls = None THEN Returned(dl) ELSE int(ls.some)
        o == IF l.raised THEN l
             ELSE IF os = None THEN Returned(0) ELSE int(os.some)
    IN  IF l.raised \/ o.raised
        THEN ValueError("limit and offset must be integers")
        ELSE IF ~(1 <= l.value /\ l.value <= ml)
        THEN ValueError("limit out of allowed range")
        ELSE IF o.value < 0
        THEN ValueError("offset must be non-negative")
        ELSE Returned(<<l.value, o.value>>)

\* the arguments of one call; the service is not running
ParseInit ==
    /\ tables = {}
    /\ started = FALSE
    /\ pokemon = <<>>
    /\ pokemon_types = EmptyBag
    /\ pc = "idle"
    /\ limit = 0
    /\ offset = 0
    /\ list_status = "none"
    /\ results = <<>>
    /\ fetch_status = <<>>
    /\ details_list = <<>>
    /\ i = 0
    /\ j = 0
    /\ saved_count = 0
    /\ tx = [pokemon |-> <<>>, pokemon_types |-> EmptyBag]
    /\ response = NoResponse
    /\ before = [pokemon |-> <<>>, pokemon_types |-> EmptyBag]
    /\ prev = NoPrev
    /\ limit_str \in {None} \cup {Some(s) : s \in Strings}
    /\ offset_str \in {None} \cup {Some(s) : s \in Strings}
    /\ default_limit \in DefaultLimits
    /\ max_limit \in MaxLimits
    /\ parsed = NotCalled
    /\ sessions = <<>>

\* the call
ParseCalled ==
    /\ parsed = NotCalled
    /\ parsed' = parse_limit_offset(limit_str, offset_str, default_limit, max_limit)
    /\ UNCHANGED <<tables, started, store_vars, pc, run_vars, response, before, prev,
                   limit_str, offset_str, default_limit, max_limit, sessions>>

ParseNext == ParseCalled

ParseSpec == ParseInit /\ [][ParseNext]_vars

\* n blanks
Blank(n) == [k \in 1..n |-> " "]

RECURSIVE Pow10(_)
Pow10(n) == IF n = 0 THEN 1 ELSE 10 * Pow10(n - 1)

\* the number a run of digits writes: each digit weighs by its place
RECURSIVE Decimal(_)
Decimal(d) ==
    IF d = <<>> THEN 0
    ELSE DigitValue(Head(d)) * Pow10(Len(d) - 1) + Decimal(Tail(d))

\* the texts that are integers, each with its value: blanks, an optional
\* sign, one or more digits, blanks
IntegerTexts ==
    {[text |-> Blank(a) \o sg.text \o d \o Blank(b), value |-> sg.factor * Decimal(d)] :
        a \in 0..MaxStr, b \in 0..MaxStr,
        sg \in {[text |-> <<>>, factor |-> 1], [text |-> <<"+">>, factor |-> 1],
                [text |-> <<"-">>, factor |-> 0 - 1]},
        d \in SeqsUpTo(Digits, MaxStr) \ {<<>>}}

\* the integers an argument stands for: the default when it is None, the
\* value of its text when that is an integer, none otherwise
Meant(arg, default) ==
    IF arg = None THEN {default}
    ELSE {t.value : t \in {x \in IntegerTexts : x.text = arg.some}}

\* C18 (parse_limit_offset): a call returns exactly when both arguments
\* stand for integers, the limit within 1..max_limit and the offset not
\* negative, and then it returns those two integers (default_limit for a
\* limit of None, 0 for an offset of None); otherwise it raises ValueError.
C18_ParseLimitOffset ==
    parsed # NotCalled =>
       LET accepted == {<<l, o>> : l \in {n \in Meant(limit_str, default_limit) :
                                            1 <= n /\ n <= max_limit},
                                   o \in {n \in Meant(offset_str, 0) : n >= 0}}
       IN  IF accepted = {}
           THEN parsed.raised
           ELSE ~parsed.raised /\ accepted = {parsed.value}

\* a call without a limit and with a signed offset has returned the default
\* limit and the offset
C18_Witness ==
    /\ limit_str = None
    /\ offset_str = Some(<<"+", "1">>)
    /\ parsed = Returned(<<default_limit, 1>>)

(* ---------------------------------------------------------------------- *)
(* Two concurrent runs                                                     *)
(* ---------------------------------------------------------------------- *)

Sessions == {1, 2}

\* the payloads the detail fetches of the two runs returned
Payloads == {Bulbasaur, BulbasaurRevised, Ivysaur}
Batches == SeqsUpTo(Payloads, MaxPage)

\* the tables as an earlier run may have left them
EarlierStores ==
    {[pokemon |-> <<>>, pokemon_types |-> EmptyBag],
     [pokemon |-> Upsert(<<>>, Bulbasaur),
      pokemon_types |-> InsertType(InsertType(EmptyBag, 1, Grass.type.some),
                                   1, Poison.type.some)]}

\* a run that has gathered the batch dl and is about to write it: get_db has
\* given it a session, whose transaction holds no write yet
StartOf(dl) ==
    LET n == NextRecord(dl, 1)
    IN  [pc |-> IF n > Len(dl) THEN "commit" ELSE "upsert",
         details_list |-> dl, i |-> n, j |-> 0, overlap |-> FALSE,
         rows |-> <<>>, deleted |-> EmptyBag, inserted |-> EmptyBag]

ConcInit ==
    /\ tables = TableNames
    /\ started = TRUE
    /\ \E st \in EarlierStores :
          /\ pokemon = st.pokemon
          /\ pokemon_types = st.pokemon_types
    /\ pc = "idle"
    /\ limit = 0
    /\ offset = 0
    /\ list_status = "none"
    /\ results = <<>>
    /\ fetch_status = <<>>
    /\ details_list = <<>>
    /\ i = 0
    /\ j = 0
    /\ saved_count = 0
    /\ tx = [pokemon |-> <<>>, pokemon_types |-> EmptyBag]
    /\ response = NoResponse
    /\ before = [pokemon |-> <<>>, pokemon_types |-> EmptyBag]
    /\ prev = NoPrev
    /\ limit_str = None
    /\ offset_str = None
    /\ default_limit = 0
    /\ max_limit = 0
    /\ parsed = NotCalled
    /\ sessions \in [Sessions -> {StartOf(dl) : dl \in Batches}]

InTransaction(s) == sessions[s].pc \notin {"committed", "rolled_back"}

\* RowLocked, had the upsert not waited for a concurrent writer of the row
RowLockedNever(s, pokemon_id) == FALSE

\* INSERT ... ON CONFLICT (pokemon_id) DO UPDATE waits while another open
\* transaction has inserted or updated the row of that pokemon_id
RowLocked(s, pokemon_id) ==
    \E o \in Sessions \ {s} :
       InTransaction(o) /\ pokemon_id \in DOMAIN sessions[o].rows

\* DELETE waits while another open transaction has deleted a row it matches
MembershipLocked(s, pokemon_id) ==
    \E o \in Sessions \ {s} :
       /\ InTransaction(o)
       /\ \E r \in BagToSet(sessions[o].deleted) : r.pokemon_id = pokemon_id

\* what a statement of session s reads (READ COMMITTED, the default of the
\* postgresql engine): the committed tables and the session's own writes
PokemonSeen(s) ==
    [k \in DOMAIN pokemon \cup DOMAIN sessions[s].rows |->
        IF k \in DOMAIN sessions[s].rows THEN sessions[s].rows[k] ELSE pokemon[k]]

CommittedSeen(s) == pokemon_types (-) sessions[s].deleted

TypesSeen(s) == CommittedSeen(s) (+) sessions[s].inserted

\* the for-loop over details_list of session s from index k on, up to its
\* next await
SessionContinue(s, k, txn) ==
    LET n == NextRecord(sessions[s].details_list, k)
    IN  sessions' = [sessions EXCEPT ![s] =
           [txn EXCEPT !.i = n, !.j = 0,
                       !.pc = IF n > Len(sessions[s].details_list)
                              THEN "commit" ELSE "upsert"]]

\* an exception leaves the handler of session s: the session is closed
\* without a commit
SessionRaise(s) ==
    sessions' = [sessions EXCEPT ![s] =
       [sessions[s] EXCEPT !.pc = "rolled_back", !.rows = <<>>,
                           !.deleted = EmptyBag, !.inserted = EmptyBag]]

SessionAfterTypes(s, scan, txn) ==
    IF scan.kind = "raise" THEN SessionRaise(s)
    ELSE IF scan.kind = "insert"
    THEN sessions' = [sessions EXCEPT ![s] = [txn EXCEPT !.pc = "insert", !.j = scan.at]]
    ELSE SessionContinue(s, sessions[s].i + 1, txn)

\* await db.execute(stmt) of session s: the upsert
SessionUpserted(s) ==
    LET details == sessions[s].details_list[sessions[s].i]
        pokemon_id == Get(details, "id", None).some
    IN  /\ sessions[s].pc = "upsert"
        /\ ~RowLocked(s, pokemon_id)
        /\ sessions' = [sessions EXCEPT ![s] =
              [sessions[s] EXCEPT
                  !.pc = "delete",
                  !.rows = [k \in DOMAIN sessions[s].rows \cup {pokemon_id} |->
                               Upsert(PokemonSeen(s), details)[k]]]]
        /\ UNCHANGED <<tables, started, store_vars, pc, run_vars, response, before,
                       prev, parse_vars>>

\* await db.execute(delete(...)) of session s
SessionDeleted(s) ==
    LET details == sessions[s].details_list[sessions[s].i]
        pokemon_id == Get(details, "id", None).some
        gone == [r \in StoredTypes(CommittedSeen(s), pokemon_id) |-> CommittedSeen(s)[r]]
        txn == [sessions[s] EXCEPT
                   !.deleted = sessions[s].deleted (+) gone,
                   !.inserted = DeleteTypes(sessions[s].inserted, pokemon_id)]
    IN  /\ sessions[s].pc = "delete"
        /\ ~MembershipLocked(s, pokemon_id)
        /\ IF TypesOf(details) = None THEN SessionRaise(s)
           ELSE SessionAfterTypes(s, ScanTypes(TypesOf(details).some, 1), txn)
        /\ UNCHANGED <<tables, started, store_vars, pc, run_vars, response, before,
                       prev, parse_vars>>

\* await db.execute(insert(...)) of session s
SessionInserted(s) ==
    LET details == sessions[s].details_list[sessions[s].i]
        pokemon_id == Get(details, "id", None).some
        types == TypesOf(details).some
        txn == [sessions[s] EXCEPT
                   !.inserted = InsertType(sessions[s].inserted, pokemon_id,
                                           TypeOf(types[sessions[s].j]).some)]
    IN  /\ sessions[s].pc = "insert"
        /\ SessionAfterTypes(s, ScanTypes(types, sessions[s].j + 1), txn)
        /\ UNCHANGED <<tables, started, store_vars, pc, run_vars, response, before,
                       prev, parse_vars>>

\* await db.commit() of session s; overlap notes whether the other session
\* had executed a statement of a transaction still open
SessionCommitted(s) ==
    /\ sessions[s].pc = "commit"
    /\ pokemon' = PokemonSeen(s)
    /\ pokemon_types' = TypesSeen(s)
    /\ sessions' = [sessions EXCEPT ![s] =
          [sessions[s] EXCEPT
              !.pc = "committed", !.rows = <<>>, !.deleted = EmptyBag,
              !.inserted = EmptyBag,
              !.overlap = \E o \in Sessions \ {s} :
                             InTransaction(o) /\ sessions[o].rows # <<>>]]
    /\ UNCHANGED <<tables, started, pc, run_vars, response, before, prev, parse_vars>>

\* a statement or the commit of session s fails (the deadlock detector's
\* victim included): the handler raises
SessionFailed(s) ==
    /\ InTransaction(s)
    /\ SessionRaise(s)
    /\ UNCHANGED <<tables, started, store_vars, pc, run_vars, response, before,
                   prev, parse_vars>>

ConcNext ==
    \/ \E s \in Sessions : SessionUpserted(s)
    \/ \E s \in Sessions : SessionDeleted(s)
    \/ \E s \in Sessions : SessionInserted(s)
    \/ \E s \in Sessions : SessionCommitted(s)
    \/ \E s \in Sessions : SessionFailed(s)

ConcSpec == ConcInit /\ [][ConcNext]_vars

\* the ids both runs write
SharedIds ==
    WrittenIds(sessions[1].details_list) \cap WrittenIds(sessions[2].details_list)

BothCommitted == \A s \in Sessions : sessions[s].pc = "committed"

\* C20 (concurrent runs do not merge memberships): when both of two
\* concurrent runs have committed, the row and the membership rows stored
\* for an id both wrote are those of the last payload one of the two runs
\* had for it.
C20_NoMergedMemberships ==
    BothCommitted =>
       \A n \in SharedIds :
          \E s \in Sessions :
             RowsOf(Snapshot, n) = Reconciled(Snapshot, sessions[s].details_list, n)

\* both runs have committed, one of them while the other's transaction was
\* open, for an id whose payloads differ in their categories
C20_Witness ==
    /\ BothCommitted
    /\ \E s \in Sessions : sessions[s].overlap
    /\ \E n \in SharedIds :
          /\ Reconciled(Snapshot, sessions[1].details_list, n).types #
                Reconciled(Snapshot, sessions[2].details_list, n).types
          /\ RowsOf(Snapshot, n) = Reconciled(Snapshot, sessions[2].details_list, n)

====
